---- MODULE Spec2Model ----
(***************************************************************************)
(* Model of the browser control panel of manan9587/smart-crawler.  The     *)
(* repository ships three variants of the page script:                     *)
(*   "fixed"   src/unnamed/part_000, class BrowserUseClient, reconnects    *)
(*             with setInterval every 3 s;                                  *)
(*   "backoff" src/browser-use-web-app/frontend/js/app.js, class           *)
(*             BrowserAgentApp, reconnects with capped exponential backoff;*)
(*   "static"  src/browser-use-web-app/static/app.js, class                *)
(*             BrowserUseClient, never reconnects.                          *)
(* A page loads exactly one of them: variant is chosen in Init and never   *)
(* changes.  JavaScript is single threaded, so every handler (WebSocket    *)
(* event, timer callback, click, continuation after an await) is one       *)
(* atomic action.                                                           *)
(***************************************************************************)
EXTENDS Integers, Sequences, FiniteSets, TLC

\* ------------------------------------------------------------------ bounds
\* A run is cut off where it would exceed one of these.
MaxConnLog == 7      \* log entries, connection specification
MaxLog == 2          \* log entries after start-up, stream and command specifications
MaxSockets == 2      \* WebSocket objects alive at the same time
MaxTimers == 2       \* timer handles alive at the same time
MaxHttp == 1         \* HTTP commands in flight at the same time
MaxLinkLog == 7      \* log entries, connection-and-stream specification
MaxCell == 3         \* characters of a result field
MaxDownloads == 1    \* files exported
MaxRefusals == 4     \* log entries written before the server accepts
MaxText == 2         \* characters typed into a field of the form

\* -------------------------------------------------------- program constants
maxReconnectAttempts == 5      \* frontend/js/app.js:6
ReconnectIntervalMs == 3000    \* part_000:55
BackoffBaseMs == 1000          \* frontend/js/app.js:167
BackoffCapMs == 10000          \* frontend/js/app.js:167

VARIABLES
  variant,              \* which page script is loaded
  sockets,              \* live WebSocket objects by readyState (counts)
  timers,               \* pending reconnect timers: records [id, delay]
  wsReconnectInterval,  \* fixed: this.wsReconnectInterval (0 = null)
  isConnected,          \* backoff: this.isConnected
  reconnectAttempts,    \* backoff: this.reconnectAttempts
  connStatus,           \* backoff: class of .connection-dot
  heartbeats,           \* backoff: active heartbeat intervals (ids)
  heartbeatInterval,    \* backoff: this.heartbeatInterval (0 = unset/null)
  log,                  \* children of #progress-log / #log-container
  results,              \* fixed, static: this.results
  frame,                \* src of #browser-screenshot (0 = none)
  btn,                  \* disabled flags of the four control buttons
  applied,              \* argument of the last updateButtons/updateStatus/updateBtns
  modal,                \* backoff: message shown by showError ("" = hidden)
  http,                 \* HTTP commands awaiting their response
  downloads,            \* fixed, static: the files offered for download by the export
  last                  \* history: the handler that ran last, with its input

connVars == <<sockets, timers, wsReconnectInterval, isConnected,
              reconnectAttempts, connStatus, heartbeats, heartbeatInterval>>
sessVars == <<results, frame, btn, applied, modal, http>>
vars == <<variant, connVars, sessVars, log, downloads, last>>

Variants == {"fixed", "backoff", "static"}

\* ----------------------------------------------------------------- helpers
\* history: the handler that ran last and what it was given (of a payload:
\* its kind, its status and which optional parts it carried)
Ran(op) == [op |-> op, type |-> "", status |-> "", hasResults |-> FALSE, hasFrame |-> FALSE]

Min(a, b) == IF a < b THEN a ELSE b

RECURSIVE Pow2(_)
Pow2(n) == IF n = 0 THEN 1 ELSE 2 * Pow2(n - 1)

\* setInterval / setTimeout hand out a handle not in use
NewHandle(used) == CHOOSE i \in 1..(Cardinality(used) + 1) : i \notin used

TimerIds == {t.id : t \in timers}

LiveSockets == sockets.connecting + sockets.open + sockets.failing

\* log(message) of part_000 and static/app.js: one <div> appended
logEntry(text, arg) == <<"-", text, arg>>

\* addLogEntry(type, message) of frontend/js/app.js: one <div> appended
addLogEntry(type, message) == <<type, message, "">>

\* The control buttons as the markup leaves them: the markup is not part of
\* src/, a <button> without a disabled attribute is enabled.
InitialControls == [start |-> FALSE, pause |-> FALSE, continue |-> FALSE, stop |-> FALSE]

\* ------------------------------------------------------------------- Init
\* new WebSocket(url): the URL is built from window.location, so the
\* constructor does not throw; the catch branches of connectWS and
\* connectWebSocket are not reachable and a failed connection is reported by
\* the error and close events.
OneConnecting == [connecting |-> 1, open |-> 0, failing |-> 0]

\* fetch(): the requests whose response has not been handled yet, per command
Commands == {"start", "pause", "resume", "stop"}
NoRequests == [c \in Commands |-> 0]
InFlight == http["start"] + http["pause"] + http["resume"] + http["stop"]
Sent(c) == [http EXCEPT ![c] = @ + 1]
Answered(c) == [http EXCEPT ![c] = @ - 1]

\* how a fetch ends: a 2xx response, another response, or a rejected promise
Outcomes == {"ok", "notok", "neterr"}

Did(op, what) == [Ran(op) EXCEPT !.type = what]

Init ==
  /\ variant \in Variants
  /\ sockets = OneConnecting
  /\ timers = {}
  /\ wsReconnectInterval = 0
  /\ isConnected = FALSE
  /\ reconnectAttempts = 0
  /\ connStatus = IF variant = "backoff" THEN "connecting" ELSE "none"
  /\ heartbeats = {}
  /\ heartbeatInterval = 0
  /\ log = IF variant = "fixed" THEN <<logEntry("System ready", "")>> ELSE <<>>
  /\ results = <<>>
  /\ frame = 0
  /\ btn = InitialControls
  /\ applied = "none"
  /\ modal = ""
  /\ http = NoRequests
  /\ downloads = <<>>
  /\ last = Ran("init")

\* ---------------------------------------------- WebSocket state (browser)
SocketOpens == [sockets EXCEPT !.connecting = @ - 1, !.open = @ + 1]
SocketErrors(from) == [sockets EXCEPT ![from] = @ - 1, !.failing = @ + 1]
SocketCloses(from) == [sockets EXCEPT ![from] = @ - 1]
SocketCreated == [sockets EXCEPT !.connecting = @ + 1]

SocketStates == {"connecting", "open", "failing"}

\* ------------------------------------------ fixed: BrowserUseClient.connectWS
\* the body of the onopen handler: clear the interval if the field holds one
ClearIntervalNever == timers
ClearInterval == {t \in timers : t.id # wsReconnectInterval}

connectWS_onopen ==
  /\ variant = "fixed"
  /\ sockets.connecting > 0
  /\ sockets' = SocketOpens
  /\ log' = Append(log, logEntry("Connected to server", ""))
  /\ IF wsReconnectInterval # 0
       THEN /\ timers' = ClearInterval
            /\ wsReconnectInterval' = 0
       ELSE UNCHANGED <<timers, wsReconnectInterval>>
  /\ last' = Ran("onopen")
  /\ UNCHANGED <<variant, downloads, isConnected, reconnectAttempts, connStatus,
                 heartbeats, heartbeatInterval, sessVars>>

connectWS_onerrorIdles ==
  /\ variant = "fixed"
  /\ \E from \in {"connecting", "open"} :
       /\ sockets[from] > 0
       /\ sockets' = SocketErrors(from)
  /\ log' = Append(log, logEntry("Connection error - retrying...", ""))
  /\ btn' = [start |-> FALSE, pause |-> TRUE, continue |-> TRUE, stop |-> TRUE]
  /\ applied' = "idle"
  /\ last' = Ran("onerror")
  /\ UNCHANGED <<variant, downloads, timers, wsReconnectInterval, isConnected,
                 reconnectAttempts, connStatus, heartbeats, heartbeatInterval,
                 results, frame, modal, http>>

connectWS_onerror ==
  /\ variant = "fixed"
  /\ \E from \in {"connecting", "open"} :
       /\ sockets[from] > 0
       /\ sockets' = SocketErrors(from)
  /\ log' = Append(log, logEntry("Connection error - retrying...", ""))
  /\ last' = Ran("onerror")
  /\ UNCHANGED <<variant, downloads, timers, wsReconnectInterval, isConnected,
                 reconnectAttempts, connStatus, heartbeats, heartbeatInterval,
                 sessVars>>

\* the guard of onclose: start the interval only when none is recorded
NoGuard == TRUE
NeverStarts == FALSE
IntervalUnset == wsReconnectInterval = 0

connectWS_onclose ==
  /\ variant = "fixed"
  /\ \E from \in SocketStates :
       /\ sockets[from] > 0
       /\ sockets' = SocketCloses(from)
  /\ log' = Append(log, logEntry("Disconnected from server - reconnecting...", ""))
  /\ IF IntervalUnset
       THEN LET h == NewHandle(TimerIds)
            IN /\ timers' = timers \cup {[id |-> h, delay |-> ReconnectIntervalMs]}
               /\ wsReconnectInterval' = h
       ELSE UNCHANGED <<timers, wsReconnectInterval>>
  /\ last' = Ran("onclose")
  /\ UNCHANGED <<variant, downloads, isConnected, reconnectAttempts, connStatus,
                 heartbeats, heartbeatInterval, sessVars>>

\* a tick of the interval: () => this.connectWS()
connectWS_tick ==
  /\ variant = "fixed"
  /\ timers # {}
  /\ sockets' = SocketCreated
  /\ last' = Ran("tick")
  /\ UNCHANGED <<variant, downloads, timers, wsReconnectInterval, isConnected,
                 reconnectAttempts, connStatus, heartbeats, heartbeatInterval,
                 sessVars, log>>

\* ---------------------------- backoff: BrowserAgentApp.connectWebSocket
\* BrowserAgentApp.updateConnectionStatus: the class of the connection dot
updateConnectionStatusStale(status) == connStatus
updateConnectionStatus(status) == status

startHeartbeat == heartbeats \cup {NewHandle(heartbeats)}

ResetAttemptsNever == reconnectAttempts
ResetAttempts == 0

connectWebSocket_onopen ==
  /\ variant = "backoff"
  /\ sockets.connecting > 0
  /\ sockets' = SocketOpens
  /\ isConnected' = TRUE
  /\ reconnectAttempts' = ResetAttempts
  /\ connStatus' = updateConnectionStatus("connected")
  /\ log' = Append(log, addLogEntry("info", "Connected to server"))
  /\ heartbeats' = startHeartbeat
  /\ heartbeatInterval' = NewHandle(heartbeats)
  /\ last' = Ran("onopen")
  /\ UNCHANGED <<variant, downloads, timers, wsReconnectInterval, sessVars>>

connectWebSocket_onerror ==
  /\ variant = "backoff"
  /\ \E from \in {"connecting", "open"} :
       /\ sockets[from] > 0
       /\ sockets' = SocketErrors(from)
  /\ log' = Append(log, addLogEntry("error", "Connection error"))
  /\ last' = Ran("onerror")
  /\ UNCHANGED <<variant, downloads, timers, wsReconnectInterval, isConnected,
                 reconnectAttempts, connStatus, heartbeats, heartbeatInterval,
                 sessVars>>

BackoffDelayUncapped(attempt) == BackoffBaseMs * Pow2(attempt - 1)

\* BrowserAgentApp.attemptReconnect: the delay of the attempt being scheduled
BackoffDelay(attempt) == Min(BackoffBaseMs * Pow2(attempt - 1), BackoffCapMs)

MayReconnectAlways == TRUE
MayReconnect == reconnectAttempts < maxReconnectAttempts

stopHeartbeatNever == heartbeats

\* BrowserAgentApp.stopHeartbeat
stopHeartbeat == IF heartbeatInterval # 0
                   THEN heartbeats \ {heartbeatInterval}
                   ELSE heartbeats

connectWebSocket_onclose ==
  /\ variant = "backoff"
  /\ \E from \in SocketStates :
       /\ sockets[from] > 0
       /\ sockets' = SocketCloses(from)
  /\ isConnected' = FALSE
  /\ heartbeats' = stopHeartbeat
  /\ heartbeatInterval' = 0
  /\ connStatus' = updateConnectionStatus("disconnected")
  /\ log' = Append(log, addLogEntry("warning", "Disconnected from server"))
  /\ IF MayReconnect
       THEN /\ reconnectAttempts' = reconnectAttempts + 1
            /\ timers' = timers \cup
                 {[id |-> NewHandle(TimerIds),
                   delay |-> BackoffDelay(reconnectAttempts + 1)]}
       ELSE UNCHANGED <<reconnectAttempts, timers>>
  /\ last' = Ran("onclose")
  /\ UNCHANGED <<variant, downloads, wsReconnectInterval, sessVars>>

\* the setTimeout callback of attemptReconnect
attemptReconnect_timeout ==
  /\ variant = "backoff"
  /\ \E t \in timers :
       /\ timers' = timers \ {t}
       /\ IF ~isConnected
            THEN /\ sockets' = SocketCreated
                 /\ connStatus' = updateConnectionStatus("connecting")
            ELSE UNCHANGED <<sockets, connStatus>>
  /\ last' = Ran("timeout")
  /\ UNCHANGED <<variant, downloads, wsReconnectInterval, isConnected, reconnectAttempts,
                 heartbeats, heartbeatInterval, sessVars, log>>

\* ------------------------------------------------------- stream payloads
\* What the server may send on the socket.  A payload is a text; json says
\* whether JSON.parse accepts it, the other fields are the decoded object
\* ("" / 0 / hasResults = FALSE: the property is absent).
Statuses == {"idle", "running", "paused", "completed", "error", "bogus", "undefined"}
Messages == {"", "m"}
Urls == {"", "u"}
Frames == {0, 1, 2}
ResultArrays == {<<>>, <<"r1">>, <<"r2">>}

Payload(j, t, st, m, u, f, h, r) ==
  [json |-> j, type |-> t, status |-> st, message |-> m, url |-> u,
   screenshot |-> f, hasResults |-> h, results |-> r]

Malformed == Payload(FALSE, "", "", "", "", 0, FALSE, <<>>)

ConnectedEvents == {Payload(TRUE, "connected", st, "", "", 0, FALSE, <<>>) : st \in Statuses}
StatusEvents ==
  {Payload(TRUE, "status", st, m, "", 0, FALSE, <<>>) : st \in Statuses, m \in Messages}
StepEvents ==
  {Payload(TRUE, "step", "", m, u, f, FALSE, <<>>) : m \in Messages, u \in Urls, f \in Frames}
  \cup {Payload(TRUE, "step", "", m, u, f, TRUE, r) :
          m \in Messages, u \in Urls, f \in Frames, r \in ResultArrays}
ErrorEvents == {Payload(TRUE, "error", "", "e", "", 0, FALSE, <<>>)}
ScreenshotEvents == {Payload(TRUE, "screenshot", "", "", "", f, FALSE, <<>>) : f \in Frames \ {0}}
WarningEvents == {Payload(TRUE, "warning", "", "w", "", 0, FALSE, <<>>)}
UnknownEvents == {Payload(TRUE, "mystery", "", "m", "", 0, FALSE, <<>>)}

Events == ConnectedEvents \cup StatusEvents \cup StepEvents \cup ErrorEvents
          \cup ScreenshotEvents \cup WarningEvents \cup UnknownEvents
Payloads == Events \cup {Malformed}

Received(p) ==
  [op |-> "onmessage", type |-> IF p.json THEN p.type ELSE "malformed",
   status |-> p.status, hasResults |-> p.hasResults, hasFrame |-> p.screenshot # 0]

\* ------------------------------------------------------- control buttons
Controls(start, pause, continue, stop) ==
  [start |-> start, pause |-> pause, continue |-> continue, stop |-> stop]

\* fixed: BrowserUseClient.updateButtons (disabled flags)
updateButtonsKeepsStart(status) ==
  IF status \in {"idle", "completed"} THEN Controls(FALSE, TRUE, TRUE, TRUE)
  ELSE IF status = "running" THEN Controls(FALSE, FALSE, TRUE, FALSE)
  ELSE IF status = "paused" THEN Controls(FALSE, TRUE, FALSE, FALSE)
  ELSE Controls(TRUE, TRUE, TRUE, TRUE)
updateButtonsIdleLocked(status) ==
  IF status = "running" THEN Controls(TRUE, FALSE, TRUE, FALSE)
  ELSE IF status = "paused" THEN Controls(TRUE, TRUE, FALSE, FALSE)
  ELSE Controls(TRUE, TRUE, TRUE, TRUE)
updateButtons(status) ==
  IF status \in {"idle", "completed"} THEN Controls(FALSE, TRUE, TRUE, TRUE)
  ELSE IF status = "running" THEN Controls(TRUE, FALSE, TRUE, FALSE)
  ELSE IF status = "paused" THEN Controls(TRUE, TRUE, FALSE, FALSE)
  ELSE Controls(TRUE, TRUE, TRUE, TRUE)

updateStatusStopAlways(status) ==
  LET isRunning == status = "running"
      isPaused == status = "paused"
      isIdle == status \in {"idle", "completed", "error"}
  IN Controls(~isIdle, ~isRunning, ~isPaused, FALSE)

\* backoff: BrowserAgentApp.updateStatus, for a status that is a string
updateStatus(status) ==
  LET isRunning == status = "running"
      isPaused == status = "paused"
      isIdle == status \in {"idle", "completed", "error"}
  IN Controls(~isIdle, ~isRunning, ~isPaused, isIdle)

\* static: BrowserUseClient.updateBtns
updateBtns(state) ==
  IF state = "running" THEN Controls(TRUE, FALSE, TRUE, FALSE)
  ELSE IF state = "paused" THEN Controls(TRUE, TRUE, FALSE, FALSE)
  ELSE Controls(FALSE, TRUE, TRUE, TRUE)

\* --------------------------------------- fixed: BrowserUseClient.onMessage
Optional(text, arg) == IF arg # "" THEN <<logEntry(text, arg)>> ELSE <<>>

stepResultsAlways(d) == d.results

\* the results kept by a step event
stepResults(d) ==
  IF d.hasResults /\ Len(d.results) > 0 THEN d.results ELSE results

\* the status applied by an error event
errorStatus == "idle"

onMessage(d) ==
  \/ /\ d.type = "connected"
     /\ btn' = updateButtons(d.status)
     /\ applied' = d.status
     /\ UNCHANGED <<log, results, frame>>
  \/ /\ d.type = "status"
     /\ btn' = updateButtons(d.status)
     /\ applied' = d.status
     /\ log' = log \o <<logEntry("Status: ", d.status)>> \o Optional("", d.message)
     /\ UNCHANGED <<results, frame>>
  \/ /\ d.type = "step"
     /\ log' = log \o Optional("", d.message) \o Optional("URL: ", d.url)
     /\ frame' = IF d.screenshot # 0 THEN d.screenshot ELSE frame
     /\ results' = stepResults(d)
     /\ UNCHANGED <<btn, applied>>
  \/ /\ d.type = "error"
     /\ log' = Append(log, logEntry("ERROR: ", d.message))
     /\ btn' = updateButtons(errorStatus)
     /\ applied' = errorStatus
     /\ UNCHANGED <<results, frame>>
  \/ /\ d.type \notin {"connected", "status", "step", "error"}
     /\ UNCHANGED <<log, results, frame, btn, applied>>

\* ws.onmessage of connectWS: JSON.parse and onMessage inside try/catch
connectWS_receive(p) ==
  /\ variant = "fixed"
  /\ sockets.open > 0
  /\ IF p.json THEN onMessage(p)
               ELSE UNCHANGED <<log, results, frame, btn, applied>>
  /\ last' = Received(p)
  /\ UNCHANGED <<variant, downloads, connVars, modal, http>>

connectWS_onmessage == \E p \in Payloads : connectWS_receive(p)

\* ------------------------- backoff: BrowserAgentApp.handleWebSocketMessage
\* updateStatus(undefined) sets the class of the status dot and then throws
\* at status.charAt; the exception ends handleWebSocketMessage and is caught
\* by the try/catch of ws.onmessage.
handleWebSocketMessage(d) ==
  \/ /\ d.type \in {"connected", "status"}
     /\ applied' = d.status
     /\ IF d.status = "undefined"
          THEN UNCHANGED <<btn, log>>
          ELSE /\ btn' = updateStatus(d.status)
               /\ log' = IF d.type = "status" /\ d.message # ""
                           THEN Append(log, addLogEntry("info", d.message))
                           ELSE log
     /\ UNCHANGED <<results, frame, modal>>
  \/ /\ d.type = "step"
     /\ log' = Append(log, addLogEntry("info", d.message))
     /\ UNCHANGED <<results, frame, btn, applied, modal>>
  \/ /\ d.type = "screenshot"
     /\ frame' = d.screenshot
     /\ UNCHANGED <<log, results, btn, applied, modal>>
  \/ /\ d.type = "error"
     /\ log' = Append(log, addLogEntry("error", d.message))
     /\ modal' = d.message
     /\ UNCHANGED <<results, frame, btn, applied>>
  \/ /\ d.type = "warning"
     /\ log' = Append(log, addLogEntry("warning", d.message))
     /\ UNCHANGED <<results, frame, btn, applied, modal>>
  \/ /\ d.type \notin {"connected", "status", "step", "screenshot", "error", "warning"}
     /\ UNCHANGED <<log, results, frame, btn, applied, modal>>

connectWebSocket_receive(p) ==
  /\ variant = "backoff"
  /\ sockets.open > 0
  /\ IF p.json THEN handleWebSocketMessage(p)
               ELSE UNCHANGED <<log, results, frame, btn, applied, modal>>
  /\ last' = Received(p)
  /\ UNCHANGED <<variant, downloads, connVars, http>>

connectWebSocket_onmessage == \E p \in Payloads : connectWebSocket_receive(p)

\* BrowserAgentApp.hideModal: the user closes the error dialog
hideModal ==
  /\ variant = "backoff"
  /\ modal # ""
  /\ modal' = ""
  /\ last' = Ran("hideModal")
  /\ UNCHANGED <<variant, downloads, connVars, results, frame, btn, applied, http, log>>

\* --------------------------------- static: BrowserUseClient (static/app.js)
\* connectWS sets no onopen, onerror or onclose handler: the socket opens
\* and closes without any effect on the page.
staticWS_open ==
  /\ variant = "static"
  /\ sockets.connecting > 0
  /\ sockets' = SocketOpens
  /\ last' = Ran("open")
  /\ UNCHANGED <<variant, downloads, timers, wsReconnectInterval, isConnected,
                 reconnectAttempts, connStatus, heartbeats, heartbeatInterval,
                 sessVars, log>>

staticWS_close ==
  /\ variant = "static"
  /\ \E from \in {"connecting", "open"} :
       /\ sockets[from] > 0
       /\ sockets' = SocketCloses(from)
  /\ last' = Ran("close")
  /\ UNCHANGED <<variant, downloads, timers, wsReconnectInterval, isConnected,
                 reconnectAttempts, connStatus, heartbeats, heartbeatInterval,
                 sessVars, log>>

onMessageStaticLogsAll(d) ==
  \/ /\ d.type = "step"
     /\ log' = log \o Optional("", d.message)
     /\ frame' = IF d.screenshot # 0 THEN d.screenshot ELSE frame
     /\ results' = IF d.hasResults THEN d.results ELSE results
     /\ UNCHANGED <<btn, applied>>
  \/ /\ d.type = "status"
     /\ btn' = updateBtns(d.status)
     /\ applied' = d.status
     /\ log' = Append(log, logEntry("Status: ", d.status))
     /\ UNCHANGED <<results, frame>>
  \/ /\ d.type \notin {"step", "status"}
     /\ log' = Append(log, logEntry("Unknown message type: ", d.type))
     /\ UNCHANGED <<results, frame, btn, applied>>
onMessageStatic(d) ==
  \/ /\ d.type = "step"
     /\ log' = log \o Optional("", d.message)
     /\ frame' = IF d.screenshot # 0 THEN d.screenshot ELSE frame
     /\ results' = IF d.hasResults THEN d.results ELSE results
     /\ UNCHANGED <<btn, applied>>
  \/ /\ d.type = "status"
     /\ btn' = updateBtns(d.status)
     /\ applied' = d.status
     /\ log' = Append(log, logEntry("Status: ", d.status))
     /\ UNCHANGED <<results, frame>>
  \/ /\ d.type \notin {"step", "status"}
     /\ UNCHANGED <<log, results, frame, btn, applied>>

\* ws.onmessage of the static connectWS: JSON.parse throws out of the handler
staticWS_receive(p) ==
  /\ variant = "static"
  /\ sockets.open > 0
  /\ IF p.json THEN onMessageStatic(p)
               ELSE UNCHANGED <<log, results, frame, btn, applied>>
  /\ last' = Received(p)
  /\ UNCHANGED <<variant, downloads, connVars, modal, http>>

staticWS_onmessage == \E p \in Payloads : staticWS_receive(p)

\* ------------------------------------------- fixed: commands (part_000)
\* A click reaches its handler only while the button is enabled (bindUI sets
\* onclick on the four buttons; a disabled button dispatches no click).
\* what a text field may hold: a text is a sequence of characters
Whitespace == {" "}

\* String.prototype.trim: the text without its leading and trailing
\* whitespace
trimNot(text) == text

RECURSIVE trimStart(_)
trimStart(text) ==
  IF text # <<>> /\ Head(text) \in Whitespace THEN trimStart(Tail(text)) ELSE text

RECURSIVE trimEnd(_)
trimEnd(text) ==
  IF text # <<>> /\ text[Len(text)] \in Whitespace
    THEN trimEnd(SubSeq(text, 1, Len(text) - 1))
    ELSE text

trim(text) == trimEnd(trimStart(text))

\* the value of #task-prompt when Start is clicked
Tasks == UNION {[1..k -> {" ", "t"}] : k \in 0..MaxText}

\* history: a start that was turned down, and whether the field held text
Rejected(text) ==
  [Did("start", "rejected") EXCEPT !.status = IF text = <<>> THEN "" ELSE "blank"]

\* start() up to its await: nothing happens for an empty task
startWith(text) ==
  /\ variant = "fixed"
  /\ ~btn.start
  /\ LET task == trim(text)
     IN IF task = <<>>
          THEN /\ last' = Rejected(text)
               /\ UNCHANGED <<log, results, http>>
          ELSE /\ log' = Append(log, logEntry("Starting task with ", task))
               /\ results' = <<>>
               /\ http' = Sent("start")
               /\ last' = Did("start", "sent")
  /\ UNCHANGED <<variant, downloads, connVars, frame, btn, applied, modal>>

start == \E text \in Tasks : startWith(text)

\* start() after its await
start_response ==
  /\ variant = "fixed"
  /\ http["start"] > 0
  /\ http' = Answered("start")
  /\ \E outcome \in Outcomes :
       /\ last' = Did("start", outcome)
       /\ IF outcome = "ok"
            THEN /\ log' = Append(log, logEntry("Task started with ID: ", "t1"))
                 /\ btn' = updateButtons("running")
                 /\ applied' = "running"
            ELSE /\ log' = Append(log, IF outcome = "notok"
                                         THEN logEntry("Failed to start: ", "detail")
                                         ELSE logEntry("Error starting task: ", "detail"))
                 /\ UNCHANGED <<btn, applied>>
  /\ UNCHANGED <<variant, downloads, connVars, results, frame, modal>>

\* pause(), resume(), stop() up to their await
Doing(c) == IF c = "pause" THEN "Pausing agent..."
            ELSE IF c = "resume" THEN "Resuming agent..." ELSE "Stopping agent..."
FailedTo(c) == IF c = "pause" THEN "Failed to pause: "
               ELSE IF c = "resume" THEN "Failed to resume: " ELSE "Failed to stop: "
ErrorDoing(c) == IF c = "pause" THEN "Error pausing: "
                 ELSE IF c = "resume" THEN "Error resuming: " ELSE "Error stopping: "
Button(c) == IF c = "resume" THEN "continue" ELSE c

command(c) ==
  /\ variant = "fixed"
  /\ ~btn[Button(c)]
  /\ log' = Append(log, logEntry(Doing(c), ""))
  /\ http' = Sent(c)
  /\ last' = Did(c, "sent")
  /\ UNCHANGED <<variant, downloads, connVars, results, frame, btn, applied, modal>>

pause == command("pause")
resume == command("resume")
stop == command("stop")

\* pause() and resume() after their await: only a failure is logged
command_response(c) ==
  /\ variant = "fixed"
  /\ http[c] > 0
  /\ http' = Answered(c)
  /\ \E outcome \in Outcomes :
       /\ last' = Did(c, outcome)
       /\ log' = IF outcome = "ok" THEN log
                 ELSE IF outcome = "notok"
                   THEN Append(log, logEntry(FailedTo(c), "detail"))
                   ELSE Append(log, logEntry(ErrorDoing(c), "detail"))
  /\ UNCHANGED <<variant, downloads, connVars, results, frame, btn, applied, modal>>

pause_response == command_response("pause")
resume_response == command_response("resume")

\* stop() after its await: a 2xx response resets the buttons
stopApplies == "idle"

stop_response ==
  /\ variant = "fixed"
  /\ http["stop"] > 0
  /\ http' = Answered("stop")
  /\ \E outcome \in Outcomes :
       /\ last' = Did("stop", outcome)
       /\ IF outcome = "ok"
            THEN /\ log' = Append(log, logEntry("Agent stopped", ""))
                 /\ btn' = updateButtons(stopApplies)
                 /\ applied' = stopApplies
            ELSE /\ log' = Append(log, IF outcome = "notok"
                                         THEN logEntry("Failed to stop: ", "detail")
                                         ELSE logEntry("Error stopping: ", "detail"))
                 /\ UNCHANGED <<btn, applied>>
  /\ UNCHANGED <<variant, downloads, connVars, results, frame, modal>>

\* ------------------------------- backoff: commands (frontend/js/app.js)
\* the fields of the form when Start is clicked
Forms ==
  [apiKey : {<<>>, <<" ">>, <<"k">>},
   task : Tasks,
   url : {<<>>, <<"u">>, <<":">>}]

\* BrowserAgentApp.isValidUrl: new URL() of the text, prefixed by https://
\* unless it starts with http, throws for a text without a host
isValidUrl(string) == Head(string) # ":"

\* BrowserAgentApp.validateForm: the message shown by showError, "" when the
\* form is accepted
validateForm(form) ==
  IF trim(form.apiKey) = <<>> THEN "Please enter your API key"
  ELSE IF trim(form.task) = <<>> THEN "Please enter a task description"
  ELSE IF trim(form.url) = <<>> \/ ~isValidUrl(trim(form.url))
    THEN "Please enter a valid URL"
  ELSE ""

\* startAgent() up to its await
startAgentWith(form) ==
  /\ variant = "backoff"
  /\ ~btn.start
  /\ IF validateForm(form) # ""
       THEN /\ modal' = validateForm(form)
            /\ last' = Did("start", "rejected")
            /\ UNCHANGED http
       ELSE /\ http' = Sent("start")
            /\ last' = Did("start", "sent")
            /\ UNCHANGED modal
  /\ UNCHANGED <<variant, downloads, connVars, results, frame, btn, applied, log>>

startAgent == \E form \in Forms : startAgentWith(form)

\* startAgent() after its await: a failure is thrown into the catch block
startAgent_response ==
  /\ variant = "backoff"
  /\ http["start"] > 0
  /\ http' = Answered("start")
  /\ \E outcome \in Outcomes :
       /\ last' = Did("start", outcome)
       /\ IF outcome = "ok"
            THEN /\ log' = Append(log, addLogEntry("success", "Agent started with task ID: t1"))
                 /\ UNCHANGED modal
            ELSE /\ modal' = "Failed to start agent: detail"
                 /\ log' = Append(log, addLogEntry("error", "detail"))
  /\ UNCHANGED <<variant, downloads, connVars, results, frame, btn, applied>>

\* pauseAgent(), resumeAgent(), stopAgent() up to their await
agentCommand(c) ==
  /\ variant = "backoff"
  /\ ~btn[Button(c)]
  /\ http' = Sent(c)
  /\ last' = Did(c, "sent")
  /\ UNCHANGED <<variant, downloads, connVars, results, frame, btn, applied, modal, log>>

pauseAgent == agentCommand("pause")
resumeAgent == agentCommand("resume")
stopAgent == agentCommand("stop")

\* ... and after it: success is logged, a failure only opens the dialog
AgentDid(c) == IF c = "pause" THEN "Agent paused"
               ELSE IF c = "resume" THEN "Agent resumed" ELSE "Agent stopped"
AgentFailed(c) == IF c = "pause" THEN "Failed to pause agent: detail"
                  ELSE IF c = "resume" THEN "Failed to resume agent: detail"
                  ELSE "Failed to stop agent: detail"

agentCommand_response(c) ==
  /\ variant = "backoff"
  /\ http[c] > 0
  /\ http' = Answered(c)
  /\ \E outcome \in Outcomes :
       /\ last' = Did(c, outcome)
       /\ IF outcome = "ok"
            THEN /\ log' = Append(log, addLogEntry("info", AgentDid(c)))
                 /\ UNCHANGED modal
            ELSE /\ modal' = AgentFailed(c)
                 /\ UNCHANGED log
  /\ UNCHANGED <<variant, downloads, connVars, results, frame, btn, applied>>

pauseAgent_response == agentCommand_response("pause")
resumeAgent_response == agentCommand_response("resume")
stopAgent_response == agentCommand_response("stop")

\* BrowserAgentApp.clearLog: the container's content is replaced
clearLog ==
  /\ variant = "backoff"
  /\ log' = <<addLogEntry("info", "Log cleared")>>
  /\ last' = Ran("clearLog")
  /\ UNCHANGED <<variant, downloads, connVars, sessVars>>

\* --------------------------------- static: commands (static/app.js)
\* start() up to its await
startStaticWith(text) ==
  /\ variant = "static"
  /\ ~btn.start
  /\ IF trim(text) = <<>>
       THEN /\ last' = Rejected(text)
            /\ UNCHANGED http
       ELSE /\ http' = Sent("start")
            /\ last' = Did("start", "sent")
  /\ UNCHANGED <<variant, downloads, connVars, results, frame, btn, applied, modal, log>>

startStatic == \E text \in Tasks : startStaticWith(text)

\* start() after its await; a rejected fetch ends the function
startStatic_response ==
  /\ variant = "static"
  /\ http["start"] > 0
  /\ http' = Answered("start")
  /\ \E outcome \in Outcomes :
       /\ last' = Did("start", outcome)
       /\ IF outcome = "ok"
            THEN /\ btn' = updateBtns("running")
                 /\ applied' = "running"
            ELSE UNCHANGED <<btn, applied>>
  /\ UNCHANGED <<variant, downloads, connVars, results, frame, modal, log>>

\* cmd(c) up to its await
cmd ==
  /\ variant = "static"
  /\ \E c \in {"pause", "resume", "stop"} :
       /\ ~btn[Button(c)]
       /\ http' = Sent(c)
       /\ last' = Did(c, "sent")
  /\ UNCHANGED <<variant, downloads, connVars, results, frame, btn, applied, modal, log>>

\* cmd(c) after its await: any response, 2xx or not, updates the buttons
cmdApplies(c) == IF c = "pause" THEN "paused" ELSE "running"

cmd_response ==
  /\ variant = "static"
  /\ \E c \in {"pause", "resume", "stop"} :
       /\ http[c] > 0
       /\ http' = Answered(c)
       /\ \E outcome \in Outcomes :
            /\ last' = Did(c, outcome)
            /\ IF outcome # "neterr"
                 THEN /\ btn' = updateBtns(cmdApplies(c))
                      /\ applied' = cmdApplies(c)
                 ELSE UNCHANGED <<btn, applied>>
  /\ UNCHANGED <<variant, downloads, connVars, results, frame, modal, log>>

\* ------------------------------------------------- export (exportCSV)
\* A text is a sequence of characters; a result record holds the texts of
\* its four fields.  The fixed script reads a field through fallbacks
\* (r.item || r.title || r.name || ''): item, description, price and url
\* stand for the values these expressions yield.
Chars == {"a", "\"", ","}
Cells == UNION {[1..k -> Chars] : k \in 0..MaxCell}

Record(i, d, v, l) == [item |-> i, description |-> d, price |-> v, url |-> l]

\* the arrays that this.results may hold when the user exports
ExportResults ==
  {<<>>} \cup {<<Record(i, d, <<>>, <<>>)>> : i \in Cells, d \in Cells}

RECURSIVE Join(_, _)
Join(texts, sep) ==
  IF Len(texts) = 0 THEN <<>>
  ELSE IF Len(texts) = 1 THEN texts[1]
  ELSE texts[1] \o sep \o Join(Tail(texts), sep)

\* `"${cell}"`
Quoted(cell) == <<"\"">> \o cell \o <<"\"">>

RowCells(r) == <<r.item, r.description, r.price, r.url>>
Row(r) == Join([i \in 1..4 |-> Quoted(RowCells(r)[i])], <<",">>)

Headers == <<"Item", ",", "Description", ",", "Price", ",", "URL">>

\* the text built by exportCSV of part_000: the header line, then one line
\* per record
CSV(rs) ==
  Headers \o <<"\n">> \o Join([i \in 1..Len(rs) |-> Row(rs[i]) \o <<"\n">>], <<>>)

\* the text built by exportCSV of static/app.js: the rows joined by newlines
CSVStatic(rs) == Join([i \in 1..Len(rs) |-> Row(rs[i])], <<"\n">>)

exportCSV ==
  /\ variant = "fixed"
  /\ IF Len(results) = 0
       THEN UNCHANGED downloads
       ELSE downloads' = Append(downloads, CSV(results))
  /\ last' = Ran("exportCSV")
  /\ UNCHANGED <<variant, connVars, sessVars, log>>

exportCSVStatic ==
  /\ variant = "static"
  /\ downloads' = Append(downloads, CSVStatic(results))
  /\ last' = Ran("exportCSV")
  /\ UNCHANGED <<variant, connVars, sessVars, log>>

\* ------------------------------------------------------- specifications
Bounded ==
  /\ LiveSockets <= MaxSockets
  /\ Cardinality(timers) <= MaxTimers
  /\ Cardinality(heartbeats) <= MaxTimers
  /\ InFlight <= MaxHttp

ConnBounded == Bounded /\ Len(log) <= MaxConnLog

ConnNext ==
  \/ connectWS_onopen /\ ConnBounded'
  \/ connectWS_onerror /\ ConnBounded'
  \/ connectWS_onclose /\ ConnBounded'
  \/ connectWS_tick /\ ConnBounded'
  \/ connectWebSocket_onopen /\ ConnBounded'
  \/ connectWebSocket_onerror /\ ConnBounded'
  \/ connectWebSocket_onclose /\ ConnBounded'
  \/ attemptReconnect_timeout /\ ConnBounded'

\* The connection logic alone: the transport opens, fails and closes and the
\* timers fire; no stream event arrives and no command is issued.
SpecConn == Init /\ [][ConnNext]_vars

\* entries written while the page starts: by init and by the first onopen
BootEntries == IF variant = "fixed" THEN 2 ELSE IF variant = "backoff" THEN 1 ELSE 0

StreamBounded == Bounded /\ Len(log) <= BootEntries + MaxLog

StreamNext ==
  \/ connectWS_onopen /\ StreamBounded'
  \/ connectWebSocket_onopen /\ StreamBounded'
  \/ staticWS_open /\ StreamBounded'
  \/ connectWS_onmessage /\ StreamBounded'
  \/ connectWebSocket_onmessage /\ StreamBounded'
  \/ staticWS_onmessage /\ StreamBounded'
  \/ hideModal /\ StreamBounded'

\* The stream alone: the socket opens and the server sends payloads; the
\* user issues no command and the transport does not fail.
SpecStream == Init /\ [][StreamNext]_vars

\* entries written by the first start of a session: by the click and by its
\* answer
StartEntries == IF variant = "fixed" THEN 2 ELSE IF variant = "backoff" THEN 1 ELSE 0

SessionBounded == Bounded /\ Len(log) <= BootEntries + StartEntries + MaxLog

\* what the server sends while commands are being issued: status and error
\* events without the optional parts
CommandEvents ==
  {p \in StatusEvents : p.message = "" /\ p.status \in {"idle", "running", "paused", "error"}}
  \cup ErrorEvents

\* what the user types while commands are being issued: fields that are
\* empty or hold one character that is no whitespace
CommandTasks == {<<>>, <<"t">>}
CommandForms ==
  [apiKey : {<<>>, <<"k">>}, task : CommandTasks, url : {<<"u">>, <<":">>}]

Next ==
  \/ connectWS_onopen /\ SessionBounded'
  \/ connectWebSocket_onopen /\ SessionBounded'
  \/ staticWS_open /\ SessionBounded'
  \/ (\E p \in CommandEvents : connectWS_receive(p)) /\ SessionBounded'
  \/ (\E p \in CommandEvents : connectWebSocket_receive(p)) /\ SessionBounded'
  \/ (\E p \in CommandEvents : staticWS_receive(p)) /\ SessionBounded'
  \/ (\E text \in CommandTasks : startWith(text)) /\ SessionBounded'
  \/ start_response /\ SessionBounded'
  \/ pause /\ SessionBounded'
  \/ pause_response /\ SessionBounded'
  \/ resume /\ SessionBounded'
  \/ resume_response /\ SessionBounded'
  \/ stop /\ SessionBounded'
  \/ stop_response /\ SessionBounded'
  \/ (\E form \in CommandForms : startAgentWith(form)) /\ SessionBounded'
  \/ startAgent_response /\ SessionBounded'
  \/ pauseAgent /\ SessionBounded'
  \/ pauseAgent_response /\ SessionBounded'
  \/ resumeAgent /\ SessionBounded'
  \/ resumeAgent_response /\ SessionBounded'
  \/ stopAgent /\ SessionBounded'
  \/ stopAgent_response /\ SessionBounded'
  \/ hideModal /\ SessionBounded'
  \/ (\E text \in CommandTasks : startStaticWith(text)) /\ SessionBounded'
  \/ startStatic_response /\ SessionBounded'
  \/ cmd /\ SessionBounded'
  \/ cmd_response /\ SessionBounded'

\* The session: the socket opens, the user issues commands, their responses
\* and the server's status and error events arrive in any order.
Spec == Init /\ [][Next]_vars

\* what the server sends in the start-to-first-result scenario: the running
\* status and a step with a message and one result record
ScenarioEvents ==
  {p \in StatusEvents : p.status = "running" /\ p.message = ""}
  \cup {p \in StepEvents : /\ p.message = "m" /\ p.url = "" /\ p.screenshot = 0
                            /\ p.hasResults /\ p.results = <<"r1">>}

ScenarioNext ==
  \/ connectWS_onopen /\ SessionBounded'
  \/ connectWebSocket_onopen /\ SessionBounded'
  \/ staticWS_open /\ SessionBounded'
  \/ (\E p \in ScenarioEvents : connectWS_receive(p)) /\ SessionBounded'
  \/ (\E p \in ScenarioEvents : connectWebSocket_receive(p)) /\ SessionBounded'
  \/ (\E p \in ScenarioEvents : staticWS_receive(p)) /\ SessionBounded'
  \/ start /\ SessionBounded'
  \/ start_response /\ SessionBounded'
  \/ startAgent /\ SessionBounded'
  \/ startAgent_response /\ SessionBounded'
  \/ hideModal /\ SessionBounded'
  \/ startStatic /\ SessionBounded'
  \/ startStatic_response /\ SessionBounded'

\* A task is started and its first result arrives: the socket opens, the
\* user clicks Start, the request is answered and the server sends the
\* running status and steps with results, in any order and number.
SpecScenario == Init /\ [][ScenarioNext]_vars

\* what the server sends while the connection comes and goes
LinkEvents ==
  {p \in StatusEvents : p.status = "running" /\ p.message = ""}
  \cup {p \in StepEvents : /\ p.message = "m" /\ p.url = "" /\ p.screenshot = 1
                            /\ p.hasResults /\ p.results = <<"r1">>}
  \cup ErrorEvents

LinkBounded == Bounded /\ Len(log) <= MaxLinkLog

LinkNext ==
  \/ connectWS_onopen /\ LinkBounded'
  \/ connectWS_onerror /\ LinkBounded'
  \/ connectWS_onclose /\ LinkBounded'
  \/ connectWS_tick /\ LinkBounded'
  \/ connectWebSocket_onopen /\ LinkBounded'
  \/ connectWebSocket_onerror /\ LinkBounded'
  \/ connectWebSocket_onclose /\ LinkBounded'
  \/ attemptReconnect_timeout /\ LinkBounded'
  \/ staticWS_open /\ LinkBounded'
  \/ staticWS_close /\ LinkBounded'
  \/ (\E p \in LinkEvents : connectWS_receive(p)) /\ LinkBounded'
  \/ (\E p \in LinkEvents : connectWebSocket_receive(p)) /\ LinkBounded'
  \/ (\E p \in LinkEvents : staticWS_receive(p)) /\ LinkBounded'
  \/ hideModal /\ LinkBounded'
  \/ clearLog /\ LinkBounded'

\* Connection and stream together: the transport opens, fails, closes and
\* is re-established while the server sends events and the user clears the
\* log; no command is issued.
SpecLink == Init /\ [][LinkNext]_vars

\* An outage of the fixed-interval client that ends: connections fail or are
\* dropped only while the log holds fewer than MaxRefusals entries; a socket
\* that has reported an error still gets its close event, and a socket that
\* is connecting after that is accepted.
RetryNext ==
  \/ connectWS_onopen /\ Len(log') <= MaxRefusals + 2 * MaxSockets + 1
  \/ connectWS_onerror /\ Len(log') <= MaxRefusals
  \/ connectWS_onclose /\ IF sockets'.failing < sockets.failing
                            THEN Len(log') <= MaxRefusals + MaxSockets
                            ELSE Len(log') <= MaxRefusals
  \/ connectWS_tick /\ Bounded'

\* the interval fires while it is set, the close event follows the error
\* event, and the server accepts a connection that it no longer refuses
RetryFairness ==
  /\ WF_vars(connectWS_tick /\ Bounded')
  /\ WF_vars(connectWS_onclose /\ sockets'.failing < sockets.failing
               /\ Len(log') <= MaxRefusals + MaxSockets)
  /\ WF_vars(connectWS_onopen /\ Len(log') <= MaxRefusals + 2 * MaxSockets + 1)

SpecRetry == Init /\ [][RetryNext]_vars /\ RetryFairness

\* the page with results on display: a socket is open and earlier step
\* events have left some array in this.results
InitExport ==
  /\ variant \in {"fixed", "static"}
  /\ sockets = [connecting |-> 0, open |-> 1, failing |-> 0]
  /\ timers = {}
  /\ wsReconnectInterval = 0
  /\ isConnected = FALSE
  /\ reconnectAttempts = 0
  /\ connStatus = "none"
  /\ heartbeats = {}
  /\ heartbeatInterval = 0
  /\ log = <<>>
  /\ results \in ExportResults
  /\ frame = 0
  /\ btn = InitialControls
  /\ applied = "none"
  /\ modal = ""
  /\ http = NoRequests
  /\ downloads = <<>>
  /\ last = Ran("init")

ExportBounded == Len(downloads) <= MaxDownloads

ExportNext ==
  \/ exportCSV /\ ExportBounded'
  \/ exportCSVStatic /\ ExportBounded'

\* The export alone: the user clicks Export CSV on a page showing results.
SpecExport == InitExport /\ [][ExportNext]_vars

\* =================================================================== claims
Logged(entry) == \E i \in 1..Len(log) : log[i] = entry

DisconnectedFixed == logEntry("Disconnected from server - reconnecting...", "")
DisconnectedBackoff == addLogEntry("warning", "Disconnected from server")

\* C1: in the fixed-interval and in the backoff client at most one reconnect
\* timer (interval or timeout) is pending in every reachable state.
C1_AtMostOneReconnectTimer == Cardinality(timers) <= 1

\* a socket closed while the interval was already running and another socket
\* was still alive
C1_Witness ==
  /\ variant = "fixed"
  /\ last.op = "onclose"
  /\ LiveSockets > 0
  /\ Cardinality(timers) = 1

\* C2: right after an open event has been handled no reconnect timer is
\* pending, and only a close handler ever adds one, so no reconnect attempt
\* fires between an open and the next closure.
C2_OpenCancelsTimer ==
  /\ [](last.op = "onopen" => timers = {})
  /\ [][timers' \ timers # {} => last'.op = "onclose"]_vars

\* the reopen after a closure, in the client that has a timer to cancel
C2_Witness ==
  /\ variant = "fixed"
  /\ last.op = "onopen"
  /\ Logged(DisconnectedFixed)
  /\ timers = {}

\* C3: the connection status shown by the backoff client is "disconnected"
\* whenever no socket is alive, becomes "connected" only from "connecting",
\* and so never goes from "disconnected" straight to "connected".
C3_ClosedConnectingOpen ==
  /\ []((variant = "backoff" /\ LiveSockets = 0) => connStatus = "disconnected")
  /\ [][(connStatus' = "connected" /\ connStatus # "connected")
          => connStatus = "connecting"]_vars

C3_Witness ==
  /\ variant = "backoff"
  /\ last.op = "onopen"
  /\ connStatus = "connected"
  /\ Logged(DisconnectedBackoff)

\* C4: in the backoff client the retry counter is zero after every open and
\* stays zero while the connection is up, so the next closure starts again
\* from the first attempt.
C4_RetryCounterReset ==
  (variant = "backoff" /\ isConnected) => reconnectAttempts = 0

C4_Witness ==
  /\ variant = "backoff"
  /\ last.op = "onopen"
  /\ Logged(DisconnectedBackoff)
  /\ reconnectAttempts = 0

\* ---------------------------------------------------------------- session
\* the page script handles payload p
Receives(p) ==
  connectWS_receive(p) \/ connectWebSocket_receive(p) \/ staticWS_receive(p)

\* a click on Start goes through and its request is sent
StartSends ==
  (start \/ startAgent \/ startStatic) /\ http'["start"] = http["start"] + 1

\* C5: while the applied session state is running or paused the start
\* control is disabled and no step sends a start request, whatever commands
\* and stream events led to that state.
C5_StartRejectedWhileActive ==
  /\ [](applied \in {"running", "paused"} => btn.start)
  /\ [][(applied \in {"running", "paused"}) => (http'["start"] <= http["start"])]_vars

\* a pause has just been answered with success: the state is paused, the
\* start control is disabled and no request is in flight
C5_Witness ==
  /\ last = Did("pause", "ok")
  /\ applied = "paused"
  /\ btn.start
  /\ http = NoRequests

\* C6: whenever the applied session state is idle, completed or error the
\* start control is enabled.
C6_StartEnabledWhenAtRest ==
  applied \in {"idle", "completed", "error"} => ~btn.start

\* C7: a status event reporting idle that is handled right after a
\* successful stop leaves the state idle and the start control enabled, and
\* an enabled start control lets a click send the start request.
C7_StartAfterStopAndIdle ==
  /\ [][\A p \in StatusEvents :
          (last = Did("stop", "ok") /\ p.status = "idle" /\ Receives(p))
            => (applied' = "idle" /\ ~btn'.start)]_vars
  /\ [](~btn.start => ENABLED StartSends)

\* the fixed-interval client has logged the stop's success and then the idle
\* status, the start control is enabled and the start request can be sent
C7_Witness ==
  /\ variant = "fixed"
  /\ Len(log) >= 2
  /\ log[Len(log) - 1] = logEntry("Agent stopped", "")
  /\ log[Len(log)] = logEntry("Status: ", "idle")
  /\ applied = "idle"
  /\ ~btn.start
  /\ ENABLED StartSends

\* C8: every stream event leaves the session state at the value it carries:
\* the status of a status event, error for an error event, and the state is
\* unchanged for an event that carries none (a connected event may set it).
C8_StateOfLastBearingEvent ==
  [][\A p \in Payloads :
       Receives(p) =>
         applied' = (IF p.json /\ p.type = "status" THEN p.status
                     ELSE IF p.json /\ p.type = "error" THEN "error"
                     ELSE IF p.json /\ p.type = "connected" THEN applied'
                     ELSE applied)]_vars

\* C9: an error event leaves the session state at error and appends one log
\* entry that holds its message, whatever the state was.
C9_ErrorEventForcesError ==
  [][\A p \in ErrorEvents :
       Receives(p) =>
         /\ applied' = "error"
         /\ Len(log') = Len(log) + 1
         /\ \E i \in 1..3 : log'[Len(log')][i] = p.message]_vars

\* C10: in the page scripts that keep results, a step event carrying a
\* results array that follows a step event carrying one leaves exactly its
\* own array as the stored results.
C10_ResultsReplaced ==
  [][\A p \in StepEvents :
       (/\ variant \in {"fixed", "static"}
        /\ last.op = "onmessage" /\ last.type = "step" /\ last.hasResults
        /\ p.hasResults
        /\ Receives(p))
         => results' = p.results]_vars

\* ------------------------------------------------- payloads and responses
\* a command's request has just been answered with a failure
Failed(c) == last'.op = c /\ last'.type \in {"notok", "neterr"}

\* C11: a payload that is not JSON leaves session state, results, frame and
\* connection as they were and appends exactly one entry to the log.
C11_MalformedLoggedOnce ==
  [][Receives(Malformed) =>
       /\ UNCHANGED <<btn, applied, results, frame, connVars>>
       /\ Len(log') = Len(log) + 1]_vars

\* C12: handling the HTTP response of start, pause, resume or stop, whatever
\* its outcome, leaves the controls and the applied session state unchanged.
C12_ResponsesLeaveState ==
  [][(last'.op \in Commands /\ last'.type \in Outcomes)
       => UNCHANGED <<btn, applied>>]_vars

\* C13: when a start request succeeds and a status event reporting idle
\* arrives for it, the applied state is idle once both have been handled, be
\* it the response first and then the event or the event (while the request
\* is in flight) and then the response.
C13_StreamWinsEitherOrder ==
  [][/\ \A p \in StatusEvents :
          (last = Did("start", "ok") /\ p.status = "idle" /\ Receives(p))
            => applied' = "idle"
     /\ (/\ last.op = "onmessage" /\ last.type = "status" /\ last.status = "idle"
         /\ http["start"] > 0
         /\ last' = Did("start", "ok"))
          => applied' = "idle"]_vars

\* C14: a start request that fails (a response that is not 2xx, or a network
\* error) leaves controls, applied state and results unchanged, appends one
\* log entry and sends no request.
C14_StartFailureSurfaced ==
  [][Failed("start") =>
       /\ UNCHANGED <<btn, applied, results>>
       /\ Len(log') = Len(log) + 1
       /\ InFlight' = InFlight - 1]_vars

\* C15: a pause, resume or stop request that fails leaves controls and
\* applied state unchanged and appends one log entry.
C15_CommandFailureSurfaced ==
  [][(\E c \in {"pause", "resume", "stop"} : Failed(c)) =>
       /\ UNCHANGED <<btn, applied>>
       /\ Len(log') = Len(log) + 1]_vars

\* --------------------------------------------------------------- scenario
\* the fixed-interval client has been through the scenario: the start was
\* answered with task id t1 (its only record is the log entry), the running
\* status was handled, no request is pending and the step event was the
\* last thing handled
ScenarioDone ==
  /\ variant = "fixed"
  /\ Logged(logEntry("Task started with ID: ", "t1"))
  /\ Logged(logEntry("Status: ", "running"))
  /\ http = NoRequests
  /\ \E p \in ScenarioEvents : p.type = "step" /\ last = Received(p)

\* C16: after start, its 200 response with task id t1, the running status
\* and a step with a message and one result record, the state is running,
\* the results are that record and the log has exactly 2 entries.
C16_ScenarioOutcome ==
  ScenarioDone => (applied = "running" /\ results = <<"r1">> /\ Len(log) = 2)

\* ------------------------------------------------------------ event kinds
\* the kinds each page script has a case for
RecognizedKinds ==
  IF variant = "fixed" THEN {"connected", "status", "step", "error"}
  ELSE IF variant = "backoff"
    THEN {"connected", "status", "step", "screenshot", "error", "warning"}
  ELSE {"step", "status"}

\* C17: an event of a kind the page script has no case for leaves controls,
\* applied state, results, frame, log and connection unchanged.
C17_UnknownKindIgnored ==
  [][\A p \in Events :
       (p.type \notin RecognizedKinds /\ last' = Received(p) /\ Receives(p))
         => UNCHANGED <<btn, applied, results, frame, log, connVars>>]_vars

\* an event of an unknown kind has just been handled by a running session
C17_Witness ==
  /\ last.op = "onmessage"
  /\ last.type = "mystery"
  /\ applied = "running"
  /\ Len(log) > BootEntries

\* ------------------------------------------------- connection and stream
\* a is an initial part of b
Prefix(a, b) == Len(a) <= Len(b) /\ SubSeq(b, 1, Len(a)) = a

\* C18: every event is applied once: whenever the page handles an event it
\* holds one open socket, so an event the server sends on the stream reaches
\* one onmessage handler, also after closures and reconnections.
C18_EachEventOnce ==
  [][\A p \in LinkEvents : Receives(p) => sockets.open = 1]_vars

\* C19: every step leaves the log as it was or with entries added at its
\* end.
C19_LogAppendOnly ==
  [][Prefix(log, log')]_vars

\* C20: the open, error and close events of the socket leave controls,
\* applied state, results and frame unchanged, and status, step and error
\* events leave the connection (sockets, timers, status, retry counter)
\* unchanged.
C20_ConnectionSessionIndependent ==
  [][/\ last'.op \in {"onopen", "onerror", "onclose", "open", "close"}
          => UNCHANGED <<btn, applied, results, frame>>
     /\ \A p \in LinkEvents : Receives(p) => UNCHANGED connVars]_vars

\* the socket has been re-opened under a running session that has results
C20_Witness ==
  /\ last.op = "onopen"
  /\ applied = "running"
  /\ results = <<"r1">>
  /\ frame = 1
  /\ (Logged(DisconnectedFixed) \/ Logged(DisconnectedBackoff))

\* ----------------------------------------------------------------- export
\* the text the page script builds for an array of results
Exported(rs) == IF variant = "fixed" THEN CSV(rs) ELSE CSVStatic(rs)

\* C21: the exported text determines the results: no other array of result
\* records yields the text that was offered for download.
C21_ExportLossless ==
  (last.op = "exportCSV" /\ Len(downloads) = 1)
    => \A rs \in ExportResults : Exported(rs) = downloads[1] => rs = results

\* ------------------------------------------------------- backoff bookkeeping
\* C22: in the backoff client the retry counter stays within 0..5; it moves
\* only by one step up together with the one timeout a close handler
\* schedules, or back to zero in an open handler, so at most five attempts
\* are scheduled between two opens; when the socket of the fifth attempt
\* closes nothing is scheduled: the client is disconnected, no timer is
\* pending and no socket is left.
C22_AttemptsBounded ==
  /\ [](variant = "backoff" => reconnectAttempts \in 0..maxReconnectAttempts)
  /\ [][(variant = "backoff" /\ reconnectAttempts' # reconnectAttempts)
          => \/ /\ last'.op = "onclose"
                /\ reconnectAttempts' = reconnectAttempts + 1
                /\ Cardinality(timers' \ timers) = 1
             \/ /\ last'.op = "onopen"
                /\ reconnectAttempts' = 0]_vars
  /\ [][(variant = "backoff" /\ timers' \ timers # {})
          => reconnectAttempts' = reconnectAttempts + 1]_vars
  /\ [][(variant = "backoff" /\ last'.op = "onclose"
           /\ reconnectAttempts = maxReconnectAttempts)
          => /\ timers' = {}
             /\ LiveSockets' = 0
             /\ ~isConnected'
             /\ connStatus' = "disconnected"
             /\ reconnectAttempts' = maxReconnectAttempts]_vars
  /\ []((variant = "backoff" /\ reconnectAttempts = maxReconnectAttempts
           /\ timers = {} /\ LiveSockets = 0)
          => ~ENABLED attemptReconnect_timeout)

\* the socket of the fifth attempt has closed
C22_Witness ==
  /\ variant = "backoff"
  /\ last.op = "onclose"
  /\ reconnectAttempts = maxReconnectAttempts
  /\ timers = {}
  /\ LiveSockets = 0

\* C23: the timeout scheduled for the k-th consecutive attempt of the backoff
\* client waits min(1000 * 2^(k-1), 10000) ms, that is 1000, 2000, 4000,
\* 8000 and 10000 ms for k = 1..5: a pending timeout carries the delay of
\* the current attempt, the first one of a run waits 1000 ms, none waits
\* less than the one before it in the run and none waits more than 10000 ms.
C23_BackoffDelays ==
  /\ [](variant = "backoff"
          => \A t \in timers :
               /\ reconnectAttempts \in 1..maxReconnectAttempts
               /\ t.delay = <<1000, 2000, 4000, 8000, 10000>>[reconnectAttempts])
  /\ [][(variant = "backoff" /\ timers' \ timers # {})
          => \A t \in timers' \ timers :
               /\ reconnectAttempts = 0 => t.delay = 1000
               /\ reconnectAttempts > 0
                    => t.delay >= <<1000, 2000, 4000, 8000, 10000>>[reconnectAttempts]
               /\ t.delay <= 10000]_vars

\* the fifth attempt is pending with the capped delay
C23_Witness ==
  /\ variant = "backoff"
  /\ reconnectAttempts = maxReconnectAttempts
  /\ \E t \in timers : t.delay = 10000

\* ------------------------------------------------------ fixed-interval retry
\* C24: in the fixed-interval client, once a socket has closed, whenever no
\* socket is open or about to deliver its close event a socket is connecting
\* or the interval is pending; a tick is possible whenever the interval is
\* pending and leaves it pending, no counter limits the ticks and only an
\* open handler removes the interval; if the server eventually accepts, a
\* socket eventually opens.
C24_RetriesUntilOpen ==
  /\ []((variant = "fixed" /\ sockets.open = 0 /\ sockets.failing = 0)
          => (sockets.connecting > 0 \/ timers # {}))
  /\ []((variant = "fixed" /\ timers # {}) => ENABLED connectWS_tick)
  /\ [][(variant = "fixed" /\ last'.op = "tick")
          => (timers' = timers /\ sockets'.connecting = sockets.connecting + 1
              /\ reconnectAttempts' = reconnectAttempts)]_vars
  /\ [][(variant = "fixed" /\ timers \ timers' # {}) => last'.op = "onopen"]_vars
  /\ (variant = "fixed" /\ Logged(DisconnectedFixed) /\ sockets.open = 0)
       ~> (sockets.open > 0)

\* the reopen after two sockets were refused
C24_Witness ==
  /\ variant = "fixed"
  /\ last.op = "onopen"
  /\ sockets.open > 0
  /\ Len(SelectSeq(log, LAMBDA e : e = DisconnectedFixed)) >= 2

\* ------------------------------------------------------------- step events
\* C25: a step event leaves the controls and the applied session state as
\* they are; a step event that carries no results leaves the results as they
\* are and one that carries no screenshot leaves the frame as it is.
C25_StepFrame ==
  [][(last'.op = "onmessage" /\ last'.type = "step")
       => \A p \in StepEvents :
            (last' = Received(p) /\ Receives(p))
              => /\ btn' = btn
                 /\ applied' = applied
                 /\ (~p.hasResults => results' = results)
                 /\ (p.screenshot = 0 => frame' = frame)]_vars

\* a bare step event arrives while a session is running and results and a
\* frame are on display
C25_Witness ==
  /\ last.op = "onmessage"
  /\ last.type = "step"
  /\ ~last.hasResults
  /\ ~last.hasFrame
  /\ applied = "running"
  /\ results # <<>>
  /\ frame # 0

\* ------------------------------------------------------------ after a stop
\* C26: in the fixed-interval and in the static client, when the response to
\* a stop request has been handled and the request succeeded, and no stream
\* event has been applied since, the controls are in the idle configuration:
\* start enabled, pause, resume and stop disabled.
C26_StopSucceededIdle ==
  (variant \in {"fixed", "static"} /\ last.op = "stop" /\ last.type = "ok")
    => btn = Controls(FALSE, TRUE, TRUE, TRUE)

\* --------------------------------------------------------- a single socket
\* C27: in the fixed-interval client at most one socket is connecting or
\* open in every reachable state, and a close handler never starts the
\* reconnect interval while another socket is open.
C27_SingleSocket ==
  /\ [](variant = "fixed" => sockets.connecting + sockets.open <= 1)
  /\ [][(variant = "fixed" /\ last'.op = "onclose" /\ timers' \ timers # {})
          => sockets'.open = 0]_vars

\* ------------------------------------------------------ one start request
\* C28: in the fixed-interval and in the backoff client, while a start
\* request is outstanding (its response has not been handled) no click on
\* Start sends a second one.
C28_OneStartOutstanding ==
  (variant \in {"fixed", "backoff"} /\ http["start"] > 0) => ~ENABLED StartSends

C30_HeartbeatWhileConnected ==
  variant = "backoff"
    => /\ isConnected <=> heartbeats # {}
       /\ Cardinality(heartbeats) <= 1
       /\ heartbeats = IF heartbeatInterval # 0 THEN {heartbeatInterval} ELSE {}

\* the connection is up again after a closure and one heartbeat is running
C30_Witness ==
  /\ variant = "backoff"
  /\ isConnected
  /\ Logged(DisconnectedBackoff)
  /\ Cardinality(heartbeats) = 1
  /\ heartbeatInterval \in heartbeats

\* ---------------------------------------------------------- an empty task
\* C31: a click on Start while the task field is empty or holds only
\* whitespace sends no request and leaves the controls, the applied session
\* state, the results and the log as they are, in all three page scripts and
\* whatever the other fields of the form hold.
C31_BlankTaskIgnored ==
  [][last'.op = "start"
       => /\ \A text \in Tasks :
               ((\A i \in 1..Len(text) : text[i] = " ")
                  /\ (startWith(text) \/ startStaticWith(text)))
                 => /\ http' = http
                    /\ btn' = btn /\ applied' = applied
                    /\ results' = results
                    /\ log' = log
          /\ \A form \in Forms :
               ((\A i \in 1..Len(form.task) : form.task[i] = " ")
                  /\ startAgentWith(form))
                 => /\ http' = http
                    /\ btn' = btn /\ applied' = applied
                    /\ results' = results
                    /\ log' = log]_vars

\* Start was clicked with a task of whitespace only while results of an
\* earlier task were on display
C31_Witness ==
  /\ variant = "fixed"
  /\ last.op = "start"
  /\ last.type = "rejected"
  /\ last.status = "blank"
  /\ results # <<>>
  /\ http = NoRequests

====
